---- MODULE Spec2Model ----
(***************************************************************************)
(* Replicated in-memory key-value cache (src/src/kv-cache.js) of one       *)
(* instance, with the peers it talks to over HTTP.  The instance owns the  *)
(* Local Store (cache) and reads the peer list from discovery; every       *)
(* peer answers the four point-to-point requests through the HTTP routes   *)
(* of src/src/index.js.  One action is one run-to-completion piece of a    *)
(* JavaScript async function: the code from a call (or from the settling   *)
(* of an awaited request) up to the next await.                            *)
(***************************************************************************)
EXTENDS Integers, Sequences, FiniteSets, TLC

\* ------------------------------------------------------------- bounds
MaxCalls == 2        \* client operations issued in one behaviour
MaxPeers == 2        \* peers the registry can list
NumKeys == 2         \* keys the clients use
MaxTasks == 4        \* syncs and redistributions launched in one behaviour
MaxAge == 6          \* heartbeat periods the clock runs for when ages are measured
MaxNames == 3        \* peers listed when the order of the list is examined
MaxRpcs == 2         \* transport calls made directly in one behaviour
MaxDeletes == 1      \* client deletes issued while a redistribution runs
MaxNodes == 2        \* instances of the cluster
MaxOps == 5          \* invocations on the instances of the cluster
MaxClients == 2      \* of which issued by clients
MaxJoins == 2        \* announcements received while the store holds data

\* ------------------------------------------------------------- constants
replicationFactor == 2

Peers == 1..MaxPeers
\* a key is the sequence of the UTF-16 code units of its string: "a", "b", ...
Keys == {<<96 + i>> : i \in 1..NumKeys}
Null == "null"            \* the JSON/JavaScript null
Absent == "absent"        \* no entry in a Map
Vals == {"v1", Null}      \* values a client may set
PeerVals == {"v0"}        \* values a peer may hold from other writers
Nil == "nil"              \* a call that has not returned
True == "true"

VARIABLES
  cache,      \* KVCache.cache: the Local Store, key -> value or Absent
  registry,   \* UDPDiscovery.peers in insertion order, as getPeers() lists them
  pstore,     \* the Local Store of every peer, as its routes read and write it
  calls,      \* the get/set/delete/keys invocations, in the order issued
  prev,       \* history: the local write or delete return of the last step,
              \* and the call that made it
  tasks,      \* the syncWithPeer and redistributeKeys runs, in the order launched
  rpcs,       \* history: the requests made through the transport functions
  cluster     \* the instances of a cluster with stable membership: their
              \* stores and the get/set/delete/keys invocations on them

\* UDPDiscovery (src/unnamed/part_002) of the same instance
VARIABLES
  peerInfo,            \* UDPDiscovery.peers: name -> the peer object stored
  now,                 \* the clock new Date() reads, in milliseconds
  discoveryCallbacks,  \* the handlers registered, in registration order
  phase,               \* "created", "binding", "running", "failed", "crashed",
                       \* "stopped"
  startRet,            \* the promise of start(): Nil before the call
  heartbeatInterval,   \* {} for null, else {the time the timer is due next}
  cleanupInterval,     \* {} for null, else {the time the timer is due next}
  sending,             \* socket.send calls whose callback has not run yet
  events,              \* history: the notifyPeerDiscovered calls, in order
  received,            \* history: the number of datagrams received
  last,                \* history: what the last discovery step was
  part                 \* history: the getResponsiblePeers invocations made

kvvars == <<cache, pstore, calls, prev, tasks, rpcs, cluster>>

dvars == <<peerInfo, now, discoveryCallbacks, phase, startRet,
           heartbeatInterval, cleanupInterval, sending, events, received,
           last, part>>

vars == <<cache, registry, pstore, calls, prev, tasks, rpcs, cluster, dvars>>

\* ------------------------------------------------------------- helpers
Range(s) == {s[i] : i \in 1..Len(s)}

\* the loop bound taken as replicationFactor alone
Min_Left(a, b) == a

Min(a, b) == IF a < b THEN a ELSE b

\* One round of hashKey's loop on the 32-bit integer hash:
\*   hash = ((hash << 5) - hash) + char;  hash = hash & hash
\* that is 31 * hash + char wrapped into [-2^31, 2^31).  The product is
\* formed on the two 16-bit halves of hash so that no intermediate number
\* leaves the 32-bit range.
hashStep(hash, char) ==
  LET hi == (hash \div 65536) % 65536
      lo == hash % 65536
      lo2 == lo * 31 + char
      hi2 == (hi * 31 + (lo2 \div 65536)) % 65536
      lo3 == lo2 % 65536
  IN IF hi2 >= 32768 THEN (hi2 - 65536) * 65536 + lo3 ELSE hi2 * 65536 + lo3

RECURSIVE hashFrom(_, _, _)
hashFrom(hash, key, i) ==
  IF i > Len(key) THEN hash
  ELSE hashFrom(hashStep(hash, key[i]), key, i + 1)

MinInt32 == -2147483647 - 1

\* Math.abs(hash) % n, with Math.abs(-2^31) = 2^31 as JavaScript computes it
AbsMod(hash, n) ==
  IF hash = MinInt32 THEN ((2147483647 % n) + 1) % n
  ELSE (IF hash < 0 THEN -hash ELSE hash) % n

\* hashKey(key) % n
hashKeyMod(key, n) == AbsMod(hashFrom(0, key, 1), n)

getPeers == registry

getResponsiblePeers(peers, key) ==
  IF Len(peers) = 0 THEN <<>>
  ELSE LET startIndex == hashKeyMod(key, Len(peers))
       IN [i \in 1..Min(replicationFactor, Len(peers)) |->
             peers[((startIndex + (i - 1)) % Len(peers)) + 1]]

\* ------------------------------------------------------------- promises
\* req maps each peer a call has sent a request to, to the state of the
\* promise the call holds for it.  In set, delete and keys every promise is
\* wrapped in a catch, so a failed request settles the wrapped promise too.
Settled(req) == {p \in DOMAIN req : req[p] # "pending"}

\* await Promise.race(promises): resumes when the first promise settles;
\* the race over no promise at all never settles.
PromiseRace(req) == Settled(req) # {}

\* Promise.race written where Promise.allSettled was meant
PromiseAllSettled_Any(req) == DOMAIN req = {} \/ Settled(req) # {}

\* await Promise.allSettled(promises): resumes when none is pending.
PromiseAllSettled(req) == Settled(req) = DOMAIN req

\* ------------------------------------------------------------- the store
\* if (this.cache.get(key)) in place of this.cache.has(key)
cacheHas_Truthy(c, key) == c[key] # Absent /\ c[key] # Null

cacheHas(c, key) == c[key] # Absent

cacheSet(c, key, value) == [c EXCEPT ![key] = value]

\* the local delete left out
cacheDelete_Kept(c, key) == c

cacheDelete(c, key) == [c EXCEPT ![key] = Absent]

\* keys filtered by the truth of their value
cacheKeys_Truthy(c) == {k \in Keys : c[k] # Absent /\ c[k] # Null}

cacheKeys(c) == {k \in Keys : c[k] # Absent}

\* ------------------------------------------------------------- the peers' routes
\* GET /kv/:key on a peer: 404 when its get yields null, else 200 {key, value};
\* getFromPeer resolves the first to null and the second to the value.
PeerGet(store, key) ==
  IF store[key] = Absent \/ store[key] = Null THEN Null ELSE store[key]

\* PUT /kv/:key on a peer that answers without storing
PeerPut_Ignored(store, key, value) == store

\* PUT /kv/:key on a peer
PeerPut(store, key, value) == [store EXCEPT ![key] = value]

\* DELETE /kv/:key on a peer
PeerDelete(store, key) == [store EXCEPT ![key] = Absent]

\* GET /kv on a peer
PeerKeys(store) == {k \in Keys : store[k] # Absent}

\* the keys of a set in the order a list or a Map hands them out
KeySeq(S) == SelectSeq([i \in 1..NumKeys |-> <<96 + i>>], LAMBDA k : k \in S)

\* ------------------------------------------------------------- the transport
\* what happens to a request: the peer's route answers, the route throws
\* (500), the connection fails, or nothing arrives within the timeout
Responses == {"answer", "throws", "error", "timeout"}

\* res.statusCode, 0 when no response arrives; GET /kv/:key answers 404
\* when the peer's get yields null (index.js 117-137)
StatusOf(op, resp, store, key) ==
  IF resp = "answer"
  THEN IF op = "get" /\ PeerGet(store, key) = Null THEN 404 ELSE 200
  ELSE IF resp = "throws" THEN 500 ELSE 0

Resolved(value) == [kind |-> "resolved", value |-> value]
Rejected == [kind |-> "rejected", value |-> Nil]

\* getFromPeer (kv-cache.js 138-175)
getFromPeer(status, value) ==
  IF status = 200 THEN Resolved(value)
  ELSE IF status = 404 THEN Resolved(Null)
  ELSE Rejected

\* setOnPeer (kv-cache.js 177-214)
setOnPeer(status) == IF status = 200 THEN Resolved(True) ELSE Rejected

\* deleteFromPeer (kv-cache.js 216-242)
deleteFromPeer(status) == IF status = 200 THEN Resolved(True) ELSE Rejected

\* getKeysFromPeer (kv-cache.js 244-279): 'error' and 'timeout' reject, a
\* response other than 200 resolves to the empty list
getKeysFromPeer(status, keys) ==
  IF status = 200 THEN Resolved(keys)
  ELSE IF status = 0 THEN Rejected
  ELSE Resolved(<<>>)

\* one transport call: http.request is called once and req.end() sends it
RpcCall(op, p, key, value) ==
  /\ Len(rpcs) < MaxRpcs
  /\ rpcs' = Append(rpcs, [op |-> op, peer |-> p, key |-> key, value |-> value,
                           requests |-> 1, pc |-> "sent", resp |-> "none",
                           status |-> 0, result |-> [kind |-> "pending", value |-> Nil]])
  /\ UNCHANGED <<cache, registry, pstore, calls, prev, tasks, cluster>>
  /\ UNCHANGED dvars

\* the call settles: the 'end' of the response, 'error' or 'timeout'
RpcSettle(n, resp) ==
  /\ n \in 1..Len(rpcs)
  /\ rpcs[n].pc = "sent"
  /\ LET r == rpcs[n]
         store == pstore[r.peer]
         status == StatusOf(r.op, resp, store, r.key)
         result == IF r.op = "get" THEN getFromPeer(status, PeerGet(store, r.key))
                   ELSE IF r.op = "set" THEN setOnPeer(status)
                   ELSE IF r.op = "delete" THEN deleteFromPeer(status)
                   ELSE getKeysFromPeer(status, KeySeq(PeerKeys(store)))
     IN /\ rpcs' = [rpcs EXCEPT ![n] = [r EXCEPT !.pc = "settled", !.resp = resp,
                                                !.status = status, !.result = result]]
        /\ pstore' = IF resp = "answer" /\ r.op = "set"
                     THEN [pstore EXCEPT ![r.peer] = PeerPut(@, r.key, r.value)]
                     ELSE IF resp = "answer" /\ r.op = "delete"
                     THEN [pstore EXCEPT ![r.peer] = PeerDelete(@, r.key)]
                     ELSE pstore
  /\ UNCHANGED <<cache, registry, calls, prev, tasks, cluster>>
  /\ UNCHANGED dvars

\* ------------------------------------------------------------- calls
\* A call is one invocation of get, set, delete or keys.  Beside what the
\* code keeps (resp: the peers computed at the call, req: its promises,
\* acc: allKeys, ret: the returned value) a call records what happened to
\* it: the peers get asked in order (queried) and what each answered
\* (answers), the key lists received (lists), whether the key was in the
\* Local Store at the call (local), the local keys at the call (snap), the
\* entry of its key right after its last write or return (seen), whether it
\* wrote the Local Store (wrote), and the step that preceded it (after).
NoPrev == [act |-> "none", key |-> <<>>, val |-> Nil, call |-> 0]

NewCall(op, key, val) ==
  [op |-> op, key |-> key, val |-> val, pc |-> "wait", resp |-> <<>>,
   req |-> <<>>, queried |-> <<>>, answers |-> <<>>, acc |-> {},
   lists |-> <<>>, ret |-> Nil, local |-> FALSE, snap |-> {},
   seen |-> Absent, wrote |-> FALSE, after |-> prev]

AllPending(peers) == [p \in Range(peers) |-> "pending"]

\* ---- get (kv-cache.js 56-79)
\* if (value !== null)
\* the return inside the loop never taken
GetHit_Never(value) == FALSE

GetHit(value) == value # Null

\* the for loop of get at position i of the responsible list: ask peer i,
\* or return null when the list is exhausted
GetAsk(c, i) ==
  IF i > Len(c.resp)
  THEN [c EXCEPT !.pc = "done", !.ret = Null]
  ELSE [c EXCEPT !.queried = Append(@, c.resp[i]),
                 !.req = (c.resp[i] :> "pending") @@ @]

GetCall(key, limit) ==
  /\ Len(calls) < limit
  /\ LET c == NewCall("get", key, Nil)
     IN IF cacheHas(cache, key)
        THEN calls' = Append(calls,
               [c EXCEPT !.pc = "done", !.ret = cache[key], !.local = TRUE,
                         !.seen = cache[key]])
        ELSE calls' = Append(calls,
               GetAsk([c EXCEPT !.resp = getResponsiblePeers(getPeers, key)], 1))
  /\ prev' = NoPrev
  /\ UNCHANGED <<cache, registry, pstore>>
  /\ UNCHANGED dvars
  /\ UNCHANGED <<tasks, rpcs, cluster>>

\* the awaited getFromPeer settles: a value, null (404), or an error
GetResp(n, outcome) ==
  /\ n \in 1..Len(calls)
  /\ calls[n].op = "get" /\ calls[n].pc = "wait"
  /\ LET c == calls[n]
         p == c.queried[Len(c.queried)]
         value == IF outcome = "answer" THEN PeerGet(pstore[p], c.key) ELSE Null
         d == [c EXCEPT !.req[p] = IF outcome = "answer" THEN "ok" ELSE "failed",
                        !.answers = Append(@, IF outcome = "answer" THEN value
                                              ELSE "error")]
     IN IF outcome = "answer" /\ GetHit(value)
        THEN /\ cache' = cacheSet(cache, c.key, value)
             /\ calls' = [calls EXCEPT ![n] =
                  [d EXCEPT !.pc = "done", !.ret = value, !.wrote = TRUE,
                            !.seen = cache'[c.key]]]
        ELSE /\ cache' = cache
             /\ calls' = [calls EXCEPT ![n] = GetAsk(d, Len(c.queried) + 1)]
  /\ prev' = NoPrev
  /\ UNCHANGED <<registry, pstore>>
  /\ UNCHANGED dvars
  /\ UNCHANGED <<tasks, rpcs, cluster>>

\* ---- set (kv-cache.js 81-101)
\* the value set returns once the race has settled: the promises are wrapped
\* in a catch, so the try block never throws and the call returns true
\* set rethrowing when every replication failed
setReturn_ThrowsWhenAllFail(req) ==
  IF DOMAIN req # {} /\ \A p \in DOMAIN req : req[p] # "ok" THEN "error" ELSE True

setReturn(req) == True

SetCall(key, value, limit) ==
  /\ Len(calls) < limit
  /\ cache' = cacheSet(cache, key, value)
  /\ LET resp == getResponsiblePeers(getPeers, key)
         c == [NewCall("set", key, value) EXCEPT
                 !.resp = resp, !.req = AllPending(resp), !.wrote = TRUE,
                 !.seen = cache'[key]]
     IN calls' = Append(calls,
          IF PromiseRace(c.req)
          THEN [c EXCEPT !.pc = "done", !.ret = setReturn(c.req)] ELSE c)
  /\ prev' = [act |-> "set", key |-> key, val |-> value, call |-> Len(calls')]
  /\ UNCHANGED <<registry, pstore>>
  /\ UNCHANGED dvars
  /\ UNCHANGED <<tasks, rpcs, cluster>>

\* one setOnPeer settles: acknowledged, applied with the answer lost, or failed
SetResp(n, p, outcome) ==
  /\ n \in 1..Len(calls)
  /\ calls[n].op = "set"
  /\ p \in DOMAIN calls[n].req /\ calls[n].req[p] = "pending"
  /\ pstore' = IF outcome \in {"ok", "lost"}
               THEN [pstore EXCEPT ![p] = PeerPut(@, calls[n].key, calls[n].val)]
               ELSE pstore
  /\ LET c == calls[n]
         d == [c EXCEPT !.req[p] = IF outcome = "ok" THEN "ok" ELSE "failed"]
     IN calls' = [calls EXCEPT ![n] =
          IF c.pc = "wait" /\ PromiseRace(d.req)
          THEN [d EXCEPT !.pc = "done", !.ret = setReturn(d.req)] ELSE d]
  /\ prev' = NoPrev
  /\ UNCHANGED <<cache, registry>>
  /\ UNCHANGED dvars
  /\ UNCHANGED <<tasks, rpcs, cluster>>

\* ---- delete (kv-cache.js 103-117)
DeleteCall(key, limit) ==
  /\ Len(calls) < limit
  /\ cache' = cacheDelete(cache, key)
  /\ LET resp == getResponsiblePeers(getPeers, key)
         c == [NewCall("delete", key, Nil) EXCEPT
                 !.resp = resp, !.req = AllPending(resp), !.wrote = TRUE,
                 !.seen = cache'[key]]
         done == PromiseAllSettled(c.req)
     IN /\ calls' = Append(calls,
             IF done THEN [c EXCEPT !.pc = "done", !.ret = True] ELSE c)
        /\ prev' = IF done
                   THEN [act |-> "deleted", key |-> key, val |-> Nil,
                         call |-> Len(calls')]
                   ELSE NoPrev
  /\ UNCHANGED <<registry, pstore>>
  /\ UNCHANGED dvars
  /\ UNCHANGED <<tasks, rpcs, cluster>>

\* one deleteFromPeer settles
DeleteResp(n, p, outcome) ==
  /\ n \in 1..Len(calls)
  /\ calls[n].op = "delete"
  /\ p \in DOMAIN calls[n].req /\ calls[n].req[p] = "pending"
  /\ pstore' = IF outcome \in {"ok", "lost"}
               THEN [pstore EXCEPT ![p] = PeerDelete(@, calls[n].key)]
               ELSE pstore
  /\ LET c == calls[n]
         d == [c EXCEPT !.req[p] = IF outcome = "ok" THEN "ok" ELSE "failed"]
         done == PromiseAllSettled(d.req)
     IN /\ calls' = [calls EXCEPT ![n] =
             IF done THEN [d EXCEPT !.pc = "done", !.ret = True] ELSE d]
        /\ prev' = IF done
                   THEN [act |-> "deleted", key |-> c.key, val |-> Nil, call |-> n]
                   ELSE NoPrev
  /\ UNCHANGED <<cache, registry>>
  /\ UNCHANGED dvars
  /\ UNCHANGED <<tasks, rpcs, cluster>>

\* ---- keys (kv-cache.js 119-135)
\* peerKeys.forEach(key => allKeys.add(key))
\* allKeys replaced by the last answer in place of merged with it
AddAll_Overwrite(allKeys, peerKeys) == peerKeys

AddAll(allKeys, peerKeys) == allKeys \cup peerKeys

KeysCall(limit) ==
  /\ Len(calls) < limit
  /\ LET c == [NewCall("keys", <<>>, Nil) EXCEPT
                 !.resp = getPeers, !.req = AllPending(getPeers),
                 !.acc = cacheKeys(cache), !.snap = {k \in Keys : cache[k] # Absent}]
     IN calls' = Append(calls,
          IF PromiseAllSettled(c.req) THEN [c EXCEPT !.pc = "done", !.ret = True]
          ELSE c)
  /\ prev' = NoPrev
  /\ UNCHANGED <<cache, registry, pstore>>
  /\ UNCHANGED dvars
  /\ UNCHANGED <<tasks, rpcs, cluster>>

\* one getKeysFromPeer settles: 200 with the peer's keys, another status
\* (resolved to the empty list), or an error
KeysResp(n, p, outcome) ==
  /\ n \in 1..Len(calls)
  /\ calls[n].op = "keys"
  /\ p \in DOMAIN calls[n].req /\ calls[n].req[p] = "pending"
  /\ LET c == calls[n]
         peerKeys == IF outcome = "answer" THEN PeerKeys(pstore[p]) ELSE {}
         d == IF outcome = "fail"
              THEN [c EXCEPT !.req[p] = "failed"]
              ELSE [c EXCEPT !.req[p] = "ok",
                             !.acc = AddAll(@, peerKeys),
                             !.lists = (p :> peerKeys) @@ @]
     IN calls' = [calls EXCEPT ![n] =
          IF PromiseAllSettled(d.req) THEN [d EXCEPT !.pc = "done", !.ret = True]
          ELSE d]
  /\ prev' = NoPrev
  /\ UNCHANGED <<cache, registry, pstore>>
  /\ UNCHANGED dvars
  /\ UNCHANGED <<tasks, rpcs, cluster>>

\* ------------------------------------------------------------- discovery
MaxTime == 4         \* heartbeat periods the clock runs for
MaxMsgs == 3         \* datagrams received in one behaviour
MaxHandlers == 2     \* handlers registered in one behaviour
MaxParts == 2        \* getResponsiblePeers invocations recorded

staleThreshold == 90000
heartbeatPeriod == 30000
cleanupPeriod == 60000

podName == 0              \* this.podName; the other pods are named 1, 2, ...
tenant == "default"       \* this.tenant
Undefined == -1           \* the value of a field the received object lacks

\* what a sender puts in an announcement and the address it sends from
Senders ==
  {[podIP |-> 1, servicePort |-> 3000, address |-> 1],
   [podIP |-> 2, servicePort |-> 3001, address |-> 2]}

Sender1 == [podIP |-> 1, servicePort |-> 3000, address |-> 1]

\* a received datagram whose text parses to an object with these fields
Announcement(type, ten, name, s) ==
  [raw |-> "object", type |-> type, tenant |-> ten, podName |-> name,
   podIP |-> s.podIP, servicePort |-> s.servicePort, address |-> s.address]

\* a received datagram that is not an object: text that is not JSON, the
\* JSON null, or a JSON number (whose every property reads as undefined)
NonObject(raw) ==
  [raw |-> raw, type |-> "undefined", tenant |-> "undefined",
   podName |-> Undefined, podIP |-> Undefined, servicePort |-> Undefined,
   address |-> 1]

NoMsg == NonObject("none")

Datagrams ==
  {NonObject(r) : r \in {"garbage", "null", "number"}}
    \cup {Announcement("discovery", tenant, n, s) :
            n \in Peers \cup {podName}, s \in Senders}
    \cup {Announcement("discovery", "other", n, s) : n \in {1}, s \in Senders}
    \cup {Announcement("other", tenant, 1, Sender1)}
    \cup {Announcement("discovery", tenant, Undefined, Sender1),
          [Announcement("discovery", tenant, 1, Sender1) EXCEPT !.podIP = Undefined],
          [Announcement("discovery", tenant, 1, Sender1) EXCEPT !.servicePort = Undefined]}

\* ---- the 'message' handler (part_002 53-64)
\* JSON.parse(msg.toString()) throws on text that is not JSON, and reading
\* message.type throws when message is null; both land in the catch
Throws(msg) == msg.raw \in {"garbage", "null"}

\* ---- handleDiscoveryMessage (part_002 95-127)
\* the message passes the filter at the top
Passes_AnyTenant(message) ==
  /\ message.type = "discovery"
  /\ message.podName # podName

Passes_OwnName(message) ==
  /\ message.type = "discovery"
  /\ message.tenant = tenant

Passes(message) ==
  /\ message.type = "discovery"
  /\ message.tenant = tenant
  /\ message.podName # podName

NewPeer(message, t) ==
  [name |-> message.podName, ip |-> message.podIP,
   port |-> message.servicePort, lastSeen |-> t,
   discoveryIP |-> message.address]

\* this.peers.set(peerKey, peer) written in the else branch too
Refresh_Replace(info, message, t) ==
  [info EXCEPT ![message.podName] = NewPeer(message, t)]

\* this.peers.get(peerKey).lastSeen = new Date()
Refresh(info, message, t) == [info EXCEPT ![message.podName].lastSeen = t]

\* ---- notifyPeerDiscovered (part_002 268-279)
\* forEach without the try/catch: the first throw ends the iteration
notifyPeerDiscovered_StopsAtThrow(callbacks, name, action) ==
  LET throwers == {i \in 1..Len(callbacks) : callbacks[i] = "throws"}
      stop == IF throwers = {} THEN Len(callbacks)
              ELSE CHOOSE i \in throwers : \A j \in throwers : i <= j
  IN [peer |-> name, action |-> action,
      invoked |-> [i \in 1..stop |-> i], caught |-> {}]

\* one record per call: the handlers invoked, in the order invoked, and
\* those whose exception the catch logged
notifyPeerDiscovered(callbacks, name, action) ==
  [peer |-> name, action |-> action,
   invoked |-> [i \in 1..Len(callbacks) |-> i],
   caught |-> {i \in 1..Len(callbacks) : callbacks[i] = "throws"}]

Step(act, msg) == [act |-> act, msg |-> msg]

\* ---- the peer-event handler of KVCache (kv-cache.js 10-18): a handler of
\* kind "kvcache" launches syncWithPeer on "added" and redistributeKeys on
\* "removed"; either runs within the notification up to its first await
POD_IP == 1               \* process.env.POD_IP: the address of this pod

KVHandlers(callbacks) == SelectSeq(callbacks, LAMBDA h : h = "kvcache")

\* isResponsibleForKey (kv-cache.js 50-54)
isResponsibleForKey(reg, info, key) ==
  LET responsible == getResponsiblePeers(reg, key)
  IN \/ \E i \in 1..Len(responsible) : info[responsible[i]].ip = POD_IP
     \/ Len(responsible) = 0

\* ---- syncWithPeer (kv-cache.js 281-302)
\* A sync records what the code keeps (peer, peerKeys, the position i in
\* peerKeys) and, as history, one turn per key the loop has reached: the
\* registry, the registered names that carry this pod's address and whether
\* the key was held, all as the loop found them, whether getFromPeer was
\* called and how it ended.
NewSync(name) ==
  [op |-> "sync", peer |-> name, pc |-> "keys", listed |-> "pending",
   peerKeys |-> <<>>, i |-> 0, turns |-> <<>>]

\* the loop from the key after position i up to the next await
RECURSIVE SyncRun(_, _, _, _)
SyncRun(t, reg, info, c) ==
  IF t.i >= Len(t.peerKeys) THEN [t EXCEPT !.pc = "done"]
  ELSE LET key == t.peerKeys[t.i + 1]
           go == isResponsibleForKey(reg, info, key) /\ ~cacheHas(c, key)
           turn == [key |-> key, reg |-> reg,
                    mine |-> {n \in Range(reg) : info[n].ip = POD_IP},
                    local |-> cacheHas(c, key), fetched |-> go,
                    outcome |-> IF go THEN "pending" ELSE "none"]
           u == [t EXCEPT !.i = @ + 1, !.turns = Append(@, turn)]
       IN IF go THEN [u EXCEPT !.pc = "value"] ELSE SyncRun(u, reg, info, c)

\* the awaited getKeysFromPeer settles: the peer's list, an empty list for
\* a response other than 200, or an error, which ends the sync
SyncKeys(n, outcome) ==
  /\ n \in 1..Len(tasks)
  /\ tasks[n].op = "sync" /\ tasks[n].pc = "keys"
  /\ LET t == tasks[n]
         peerKeys == IF outcome = "answer" THEN KeySeq(PeerKeys(pstore[t.peer]))
                     ELSE <<>>
     IN tasks' = [tasks EXCEPT ![n] =
          IF outcome = "fail" THEN [t EXCEPT !.pc = "done", !.listed = "error"]
          ELSE SyncRun([t EXCEPT !.peerKeys = peerKeys, !.listed = "ok"],
                       registry, peerInfo, cache)]
  /\ UNCHANGED <<cache, registry, pstore, calls, prev, rpcs, cluster>>
  /\ UNCHANGED dvars

\* if (value !== null)
SyncHit(value) == value # Null

\* the fetched value is dropped
SyncStore_Dropped(c, key, value) == c

\* the store is replaced by one holding the fetched key alone
SyncStore_Replaces(c, key, value) ==
  [k \in Keys |-> IF k = key THEN value ELSE Absent]

\* this.cache.set(key, value)
SyncStore(c, key, value) == cacheSet(c, key, value)

\* the awaited getFromPeer settles: a value, null (404), or an error caught
\* inside the loop
SyncValue(n, outcome) ==
  /\ n \in 1..Len(tasks)
  /\ tasks[n].op = "sync" /\ tasks[n].pc = "value"
  /\ LET t == tasks[n]
         key == t.peerKeys[t.i]
         value == PeerGet(pstore[t.peer], key)
         store == outcome = "answer" /\ SyncHit(value)
         u == [t EXCEPT !.turns[t.i].outcome =
                 IF outcome = "fail" THEN "error"
                 ELSE IF value = Null THEN "absent" ELSE "value"]
     IN /\ cache' = IF store THEN SyncStore(cache, key, value) ELSE cache
        /\ tasks' = [tasks EXCEPT ![n] = SyncRun(u, registry, peerInfo, cache')]
  /\ UNCHANGED <<registry, pstore, calls, prev, rpcs, cluster>>
  /\ UNCHANGED dvars

\* ---- redistributeKeys (kv-cache.js 304-324)
\* A redistribution records what the code keeps (keys, the position i in
\* keys, responsible and value of the key under way, the position j in
\* responsible) and, as history, one turn per key the loop has reached:
\* the registry as the loop found it and the peers setOnPeer was called on.
NewRedist(c) ==
  [op |-> "redistribute", pc |-> "run", keys |-> KeySeq(cacheKeys(c)),
   i |-> 0, j |-> 0, responsible |-> <<>>, value |-> Nil, turns |-> <<>>]

\* if (currentReplicas <= this.replicationFactor)
NeedsReplicas_Always(responsible) == Len(responsible) <= replicationFactor

\* if (currentReplicas < this.replicationFactor)
NeedsReplicas(responsible) == Len(responsible) < replicationFactor

\* the loop from the key after position i up to the next await
RECURSIVE RedistRun(_, _, _)
RedistRun(t, reg, c) ==
  IF t.i >= Len(t.keys) THEN [t EXCEPT !.pc = "done"]
  ELSE LET key == t.keys[t.i + 1]
           responsible == getResponsiblePeers(reg, key)
           push == NeedsReplicas(responsible) /\ Len(responsible) > 0
           turn == [key |-> key, reg |-> reg,
                    pushes |-> IF push THEN <<responsible[1]>> ELSE <<>>]
           u == [t EXCEPT !.i = @ + 1, !.turns = Append(@, turn),
                          !.responsible = responsible, !.value = c[key],
                          !.j = IF push THEN 1 ELSE 0]
       IN IF push THEN [u EXCEPT !.pc = "push"] ELSE RedistRun(u, reg, c)

\* the awaited setOnPeer settles; an error is caught inside the loop
RedistPush(n, outcome) ==
  /\ n \in 1..Len(tasks)
  /\ tasks[n].op = "redistribute" /\ tasks[n].pc = "push"
  /\ LET t == tasks[n]
         p == t.responsible[t.j]
     IN /\ pstore' = IF outcome \in {"ok", "lost"}
                     THEN [pstore EXCEPT ![p] = PeerPut(@, t.keys[t.i], t.value)]
                     ELSE pstore
        /\ tasks' = [tasks EXCEPT ![n] =
             IF t.j < Len(t.responsible)
             THEN [t EXCEPT !.j = @ + 1,
                            !.turns[t.i].pushes = Append(@, t.responsible[t.j + 1])]
             ELSE RedistRun(t, registry, cache)]
  /\ UNCHANGED <<cache, registry, calls, prev, rpcs, cluster>>
  /\ UNCHANGED dvars

\* if (isNewPeer) dropped: every announcement is taken for a new peer
isNewPeer_Always(info, peerKey) == TRUE

\* const isNewPeer = !this.peers.has(peerKey)
isNewPeer(info, peerKey) == peerKey \notin DOMAIN info

\* a notification together with the list getPeers() returns to the
\* handlers it invokes
Notified(rec, peers) ==
  [peer |-> rec.peer, action |-> rec.action, invoked |-> rec.invoked,
   caught |-> rec.caught, seen |-> peers]

HandleMessage(msg) ==
  /\ phase = "running"
  /\ received < MaxMsgs
  /\ received' = received + 1
  /\ last' = Step("message", msg)
  /\ IF Throws(msg) \/ ~Passes(msg)
     THEN UNCHANGED <<registry, peerInfo, events, tasks>>
     ELSE LET peerKey == msg.podName
          IN IF isNewPeer(peerInfo, peerKey)
             THEN /\ registry' = Append(registry, peerKey)
                  /\ peerInfo' = (peerKey :> NewPeer(msg, now)) @@ peerInfo
                  /\ events' = Append(events,
                       Notified(notifyPeerDiscovered(discoveryCallbacks, peerKey, "added"),
                                registry'))
                  /\ tasks' = tasks \o
                       [e \in 1..Len(KVHandlers(discoveryCallbacks)) |->
                          NewSync(peerKey)]
             ELSE /\ peerInfo' = Refresh(peerInfo, msg, now)
                  /\ UNCHANGED <<registry, events, tasks>>
  /\ UNCHANGED <<now, discoveryCallbacks, phase, startRet, heartbeatInterval,
                 cleanupInterval, sending, part>>
  /\ UNCHANGED <<cache, pstore, calls, prev, rpcs, cluster>>

\* ---- onPeerDiscovered (part_002 129-131), called as index.js calls it:
\* by the constructors that run before discovery.start()
onPeerDiscovered(callback) ==
  /\ phase = "created"
  /\ Len(discoveryCallbacks) < MaxHandlers
  /\ discoveryCallbacks' = Append(discoveryCallbacks, callback)
  /\ last' = Step("register", NoMsg)
  /\ UNCHANGED <<registry, peerInfo, now, phase, startRet, heartbeatInterval,
                 cleanupInterval, sending, events, received, part>>
  /\ UNCHANGED kvvars

\* ---- start (part_002 133-165)
\* start() up to its await: socket.bind is called, the promise is pending
StartCall ==
  /\ phase = "created"
  /\ phase' = "binding"
  /\ startRet' = "pending"
  /\ last' = Step("start", NoMsg)
  /\ UNCHANGED <<registry, peerInfo, now, discoveryCallbacks, heartbeatInterval,
                 cleanupInterval, sending, events, received, part>>
  /\ UNCHANGED kvvars

\* How socket.bind(port, callback) ends.  "listening": the socket is bound
\* and the callback runs without an argument, so the promise resolves and
\* start() goes on to startHeartbeat, startCleanup and broadcastDiscovery.
\* "error": the bind fails, the socket emits 'error' (logged by the handler
\* of setupSocket) and the callback is never run, so the promise stays
\* pending.  "throws": bind throws in the promise's executor, the promise
\* rejects and the catch of start() logs the error.
BindDone(outcome) ==
  /\ phase = "binding"
  /\ last' = Step(outcome, NoMsg)
  /\ IF outcome = "listening"
     THEN /\ phase' = "running"
          /\ heartbeatInterval' = {now + heartbeatPeriod}
          /\ cleanupInterval' = {now + cleanupPeriod}
          /\ sending' = {"multicast", "broadcast"}
          /\ startRet' = "resolved"
     ELSE /\ phase' = "failed"
          /\ startRet' = IF outcome = "throws" THEN "resolved" ELSE "pending"
          /\ UNCHANGED <<heartbeatInterval, cleanupInterval, sending>>
  /\ UNCHANGED <<registry, peerInfo, now, discoveryCallbacks, events,
                 received, part>>
  /\ UNCHANGED kvvars

\* ---- the heartbeat timer (part_002 167-172) and broadcastDiscovery (181-211)
\* the Node process has not ended on an uncaught exception
Alive == phase # "crashed"

Due(timer) == \E d \in timer : d <= now

\* the timer fires every second period
Rearm_EverySecond(timer, period) == {d + (2 * period) : d \in timer}

Rearm(timer, period) == {d + period : d \in timer}

\* broadcastDiscovery without the broadcast fallback
HeartbeatTick_MulticastOnly ==
  /\ Alive
  /\ Due(heartbeatInterval)
  /\ heartbeatInterval' = Rearm(heartbeatInterval, heartbeatPeriod)
  /\ sending' = {"multicast"}
  /\ last' = Step("heartbeat", NoMsg)
  /\ UNCHANGED <<registry, peerInfo, now, discoveryCallbacks, phase, startRet,
                 cleanupInterval, events, received, part>>
  /\ UNCHANGED kvvars

HeartbeatTick ==
  /\ Alive
  /\ Due(heartbeatInterval)
  /\ heartbeatInterval' = Rearm(heartbeatInterval, heartbeatPeriod)
  /\ sending' = {"multicast", "broadcast"}
  /\ last' = Step("heartbeat", NoMsg)
  /\ UNCHANGED <<registry, peerInfo, now, discoveryCallbacks, phase, startRet,
                 cleanupInterval, events, received, part>>
  /\ UNCHANGED kvvars

\* The callback of one socket.send runs.  With err set, the callback
\* evaluates the object literal { err: error, ... }: no variable named error
\* is in scope (the parameter is err), so a ReferenceError is thrown out of
\* the callback; nothing catches it and the process ends.
SendDone(kind, outcome) ==
  /\ Alive
  /\ kind \in sending
  /\ sending' = sending \ {kind}
  /\ last' = Step(IF outcome = "ok" THEN "sent" ELSE "sendFailed", NoMsg)
  /\ phase' = IF outcome = "ok" THEN phase ELSE "crashed"
  /\ UNCHANGED <<registry, peerInfo, now, discoveryCallbacks, startRet,
                 heartbeatInterval, cleanupInterval, events, received, part>>
  /\ UNCHANGED kvvars

\* ---- the cleanup timer (part_002 174-179) and cleanupStalePeers (252-266)
\* now - peer.lastSeen >= staleThreshold
IsStale_AtThreshold(t, peer) == t - peer.lastSeen >= staleThreshold

\* a peer is dropped after two missed heartbeats
IsStale_TwoMissed(t, peer) == t - peer.lastSeen > 2 * heartbeatPeriod

IsStale(t, peer) == t - peer.lastSeen > staleThreshold

\* the names the scan deletes, in the order the Map is iterated
StalePeers == SelectSeq(registry, LAMBDA n : IsStale(now, peerInfo[n]))

\* notifyPeerDiscovered called before this.peers.delete(name)
RegistryAfter_NotYet(stale, i) ==
  SelectSeq(registry, LAMBDA n : \A j \in 1..(i - 1) : stale[j] # n)

\* the registry as the handlers of the i-th removal of a scan find it: the
\* stale peers up to the i-th are deleted, the later ones are still listed
RegistryAfter(stale, i) ==
  SelectSeq(registry, LAMBDA n : \A j \in 1..i : stale[j] # n)

CleanupTick ==
  /\ Alive
  /\ Due(cleanupInterval)
  /\ cleanupInterval' = Rearm(cleanupInterval, cleanupPeriod)
  /\ LET stale == StalePeers
     IN /\ registry' = SelectSeq(registry, LAMBDA n : ~IsStale(now, peerInfo[n]))
        /\ peerInfo' = [n \in DOMAIN peerInfo \ Range(stale) |-> peerInfo[n]]
        /\ events' = events \o
             [i \in 1..Len(stale) |->
                Notified(notifyPeerDiscovered(discoveryCallbacks, stale[i], "removed"),
                         RegistryAfter(stale, i))]
        /\ tasks' = tasks \o
             [e \in 1..(Len(stale) * Len(KVHandlers(discoveryCallbacks))) |->
                RedistRun(NewRedist(cache),
                          RegistryAfter(stale,
                            ((e - 1) \div Len(KVHandlers(discoveryCallbacks))) + 1),
                          cache)]
  /\ last' = Step("cleanup", NoMsg)
  /\ UNCHANGED <<now, discoveryCallbacks, phase, startRet, heartbeatInterval,
                 sending, received, part>>
  /\ UNCHANGED <<cache, pstore, calls, prev, rpcs, cluster>>

\* ---- time: a heartbeat period passes once the due timers and the send
\* callbacks have run
Tick(limit) ==
  /\ phase \in {"running", "stopped"}
  /\ now < limit * heartbeatPeriod
  /\ ~Due(heartbeatInterval) /\ ~Due(cleanupInterval) /\ sending = {}
  /\ now' = now + heartbeatPeriod
  /\ last' = Step("tick", NoMsg)
  /\ UNCHANGED <<registry, peerInfo, discoveryCallbacks, phase, startRet,
                 heartbeatInterval, cleanupInterval, sending, events,
                 received, part>>
  /\ UNCHANGED kvvars

\* ---- stop (part_002 285-299)
\* clearInterval left out for both timers
Stop_TimersLeft ==
  /\ phase \in {"binding", "running"}
  /\ phase' = "stopped"
  /\ last' = Step("stop", NoMsg)
  /\ UNCHANGED <<registry, peerInfo, now, discoveryCallbacks, startRet,
                 heartbeatInterval, cleanupInterval, sending, events,
                 received, part>>
  /\ UNCHANGED kvvars

\* stop() clears the two timers that are set and closes the socket.  A
\* closed socket delivers no datagram.  When the bind is still under way
\* the close drops the socket's handle, and dgram then abandons the bind
\* without running its callback: start() stays at its await for good.
\* Callbacks of sends already handed to the socket may still run.
Stop ==
  /\ phase \in {"binding", "running"}
  /\ phase' = "stopped"
  /\ heartbeatInterval' = {}
  /\ cleanupInterval' = {}
  /\ last' = Step("stop", NoMsg)
  /\ UNCHANGED <<registry, peerInfo, now, discoveryCallbacks, startRet,
                 sending, events, received, part>>
  /\ UNCHANGED kvvars

\* ---- getResponsiblePeers(key) invoked on the registry as it is
\* peers.shift() used to walk the list: the call consumes the list it reads
PartitionCall_Consumes(key) ==
  /\ Len(part) < MaxParts
  /\ UNCHANGED kvvars
  /\ registry' = SubSeq(registry, Len(getResponsiblePeers(getPeers, key)) + 1,
                        Len(registry))
  /\ part' = Append(part, [key |-> key, peers |-> getPeers,
                           result |-> getResponsiblePeers(getPeers, key),
                           peersAfter |-> registry', cacheAfter |-> cache'])
  /\ last' = Step("partition", NoMsg)
  /\ UNCHANGED <<peerInfo, now, discoveryCallbacks, phase, startRet,
                 heartbeatInterval, cleanupInterval, sending, events, received>>

\* part records, for each invocation, the key, the list getPeers() returned,
\* the list the call returned, and the registry and the Local Store as the
\* call left them
PartitionCall(key) ==
  /\ Len(part) < MaxParts
  /\ UNCHANGED kvvars
  /\ UNCHANGED <<registry, peerInfo, now, discoveryCallbacks, phase, startRet,
                 heartbeatInterval, cleanupInterval, sending, events, received>>
  /\ part' = Append(part, [key |-> key, peers |-> getPeers,
                           result |-> getResponsiblePeers(getPeers, key),
                           peersAfter |-> registry', cacheAfter |-> cache'])
  /\ last' = Step("partition", NoMsg)

\* ------------------------------------------------------------- specification
\* the peer lists discovery can hand out, in the order the peers were added
Registries == {[i \in 1..n |-> i] : n \in 0..MaxPeers}

EmptyStore == [k \in Keys |-> Absent]

\* ------------------------------------------------------------- the cluster
\* Instances 1..MaxNodes run the same code and know each other: getPeers()
\* of an instance lists all the others.  A request a transport function
\* sends is served by the route of the receiving instance (index.js
\* 117-189), which invokes get, set, delete or keys of its own KVCache.
Nodes == 1..MaxNodes

peersOf(i) == SelectSeq([j \in 1..MaxNodes |-> j], LAMBDA j : j # i)

NoCluster == [store |-> [i \in Nodes |-> EmptyStore], ops |-> <<>>]

\* the first statement of set and of delete
StoreAfter(op, st, key, val) ==
  IF op = "set" THEN cacheSet(st, key, val)
  ELSE IF op = "delete" THEN cacheDelete(st, key)
  ELSE st

\* whether an invocation returns, given the promises it holds
Returns(c) ==
  IF c.op = "set" THEN PromiseRace(c.req)
  ELSE IF c.op = "get" THEN FALSE
  ELSE PromiseAllSettled(c.req)

\* the peers an invocation sends a request to before its first await: all
\* responsible peers (set, delete), all peers (keys), the first responsible
\* peer on a local miss (get)
Asked(op, resp, hit) ==
  IF op = "get"
  THEN IF hit THEN <<>> ELSE SubSeq(resp, 1, Min(1, Len(resp)))
  ELSE resp

\* get, set, delete or keys invoked on instance i whose store is st, up
\* to its first await; parent is the invocation whose request the route
\* serves, 0 for a client
Invoke(i, op, key, val, parent, st) ==
  LET resp == IF op = "keys" THEN peersOf(i)
              ELSE getResponsiblePeers(peersOf(i), key)
      hit == op = "get" /\ cacheHas(st, key)
      asked == Asked(op, resp, hit)
      c == [node |-> i, op |-> op, key |-> key, val |-> val, parent |-> parent,
            resp |-> resp, req |-> AllPending(asked), served |-> {},
            pos |-> Len(asked), acc |-> IF op = "keys" THEN cacheKeys(st) ELSE {},
            pc |-> "wait", ret |-> Nil]
  IN IF op = "get"
     THEN IF hit THEN [c EXCEPT !.pc = "done", !.ret = st[key]]
          ELSE IF asked = <<>> THEN [c EXCEPT !.pc = "done", !.ret = Null]
          ELSE c
     ELSE IF Returns(c) THEN [c EXCEPT !.pc = "done", !.ret = True] ELSE c

ClientOps == {n \in 1..Len(cluster.ops) : cluster.ops[n].parent = 0}

\* a client calls an operation on instance i
ClientOp(i, op, key) ==
  /\ Len(cluster.ops) < MaxOps
  /\ Cardinality(ClientOps) < MaxClients
  /\ LET val == IF op = "set" THEN "v1" ELSE Nil
     IN cluster' =
          [store |-> [cluster.store EXCEPT ![i] = StoreAfter(op, @, key, val)],
           ops |-> Append(cluster.ops,
                          Invoke(i, op, key, val, 0, cluster.store[i]))]
  /\ UNCHANGED <<cache, registry, pstore, calls, prev, tasks, rpcs>>
  /\ UNCHANGED dvars

\* the request invocation n sent to instance p arrives and p's route runs
Deliver(n, p) ==
  /\ n \in 1..Len(cluster.ops)
  /\ Len(cluster.ops) < MaxOps
  /\ p \in DOMAIN cluster.ops[n].req
  /\ cluster.ops[n].req[p] = "pending" /\ p \notin cluster.ops[n].served
  /\ LET c == cluster.ops[n]
     IN cluster' =
          [store |-> [cluster.store EXCEPT ![p] = StoreAfter(c.op, @, c.key, c.val)],
           ops |-> Append([cluster.ops EXCEPT ![n].served = @ \cup {p}],
                          Invoke(p, c.op, c.key, c.val, n, cluster.store[p]))]
  /\ UNCHANGED <<cache, registry, pstore, calls, prev, tasks, rpcs>>
  /\ UNCHANGED dvars

\* the promise invocation n holds for instance p settles: with the answer
\* of p's route (v: the value of a get, the keys of a list) or with an
\* error; get goes on to the next responsible peer unless it got a value
Settle(n, p, outcome, v) ==
  LET c == cluster.ops[n]
      d == [c EXCEPT !.req[p] = outcome]
      st == cluster.store[c.node]
  IN IF c.pc = "done"
     THEN [store |-> cluster.store, ops |-> [cluster.ops EXCEPT ![n] = d]]
     ELSE IF c.op = "get"
     THEN IF outcome = "ok" /\ GetHit(v)
          THEN [store |-> [cluster.store EXCEPT ![c.node] = cacheSet(st, c.key, v)],
                ops |-> [cluster.ops EXCEPT ![n] =
                           [d EXCEPT !.pc = "done", !.ret = v]]]
          ELSE IF c.pos < Len(c.resp)
          THEN [store |-> cluster.store,
                ops |-> [cluster.ops EXCEPT ![n] =
                           [d EXCEPT !.pos = @ + 1,
                                     !.req = (c.resp[c.pos + 1] :> "pending") @@ d.req]]]
          ELSE [store |-> cluster.store,
                ops |-> [cluster.ops EXCEPT ![n] =
                           [d EXCEPT !.pc = "done", !.ret = Null]]]
     ELSE LET e == IF c.op = "keys" /\ outcome = "ok"
                   THEN [d EXCEPT !.acc = AddAll(@, v)] ELSE d
          IN [store |-> cluster.store,
              ops |-> [cluster.ops EXCEPT ![n] =
                         IF Returns(e) THEN [e EXCEPT !.pc = "done", !.ret = True]
                         ELSE e]]

\* p's route has finished and its response reaches invocation n: 404 for
\* a get that yielded null, else 200
Answer(n, p) ==
  /\ n \in 1..Len(cluster.ops)
  /\ p \in DOMAIN cluster.ops[n].req
  /\ cluster.ops[n].req[p] = "pending" /\ p \in cluster.ops[n].served
  /\ \E m \in 1..Len(cluster.ops) :
       /\ cluster.ops[m].parent = n /\ cluster.ops[m].node = p
       /\ cluster.ops[m].pc = "done"
       /\ cluster' = Settle(n, p, "ok",
                            IF cluster.ops[m].op = "keys" THEN cluster.ops[m].acc
                            ELSE cluster.ops[m].ret)
  /\ UNCHANGED <<cache, registry, pstore, calls, prev, tasks, rpcs>>
  /\ UNCHANGED dvars

\* the request of invocation n to p ends in 'error' or 'timeout'; a route
\* that is already serving it goes on
Fail(n, p) ==
  /\ n \in 1..Len(cluster.ops)
  /\ p \in DOMAIN cluster.ops[n].req
  /\ cluster.ops[n].req[p] = "pending"
  /\ cluster' = Settle(n, p, "failed", Nil)
  /\ UNCHANGED <<cache, registry, pstore, calls, prev, tasks, rpcs>>
  /\ UNCHANGED dvars

\* a peer as the registry holds it when the cache operations run
KnownPeer(n) ==
  [name |-> n, ip |-> n, port |-> 3000, lastSeen |-> 0, discoveryIP |-> n]

NoPart == <<>>

\* discovery running, with the peers of the registry heard of just now
DiscoveryQuiet ==
  /\ peerInfo = [n \in Range(registry) |-> KnownPeer(n)]
  /\ now = 0
  /\ discoveryCallbacks = <<>>
  /\ phase = "running"
  /\ startRet = "resolved"
  /\ heartbeatInterval = {heartbeatPeriod}
  /\ cleanupInterval = {cleanupPeriod}
  /\ sending = {}
  /\ events = <<>>
  /\ received = 0
  /\ last = Step("none", NoMsg)
  /\ part = NoPart

Init ==
  /\ cache \in [Keys -> {Absent} \cup PeerVals]
  /\ registry \in Registries
  /\ pstore \in [Peers -> [Keys -> {Absent} \cup PeerVals]]
  /\ \A p \in Peers : p \notin Range(registry) => pstore[p] = EmptyStore
  /\ calls = <<>>
  /\ prev = NoPrev
  /\ tasks = <<>>
  /\ rpcs = <<>>
  /\ cluster = NoCluster
  /\ DiscoveryQuiet

Next ==
  \/ \E k \in Keys : GetCall(k, MaxCalls)
  \/ \E n \in 1..MaxCalls : \E o \in {"answer", "fail"} : GetResp(n, o)
  \/ \E k \in Keys : \E v \in Vals : SetCall(k, v, MaxCalls)
  \/ \E n \in 1..MaxCalls : \E p \in Peers :
       \E o \in {"ok", "lost", "fail"} : SetResp(n, p, o)
  \/ \E k \in Keys : DeleteCall(k, MaxCalls)
  \/ \E n \in 1..MaxCalls : \E p \in Peers :
       \E o \in {"ok", "lost", "fail"} : DeleteResp(n, p, o)
  \/ KeysCall(MaxCalls)
  \/ \E n \in 1..MaxCalls : \E p \in Peers :
       \E o \in {"answer", "other", "fail"} : KeysResp(n, p, o)

Spec == Init /\ [][Next]_vars

\* A freshly constructed instance among peers that hold nothing, used by
\* clients that only set and list keys.
MaxSeq == MaxCalls + 1

InitFresh ==
  /\ cache = EmptyStore
  /\ registry \in Registries
  /\ pstore = [p \in Peers |-> EmptyStore]
  /\ calls = <<>>
  /\ prev = NoPrev
  /\ tasks = <<>>
  /\ rpcs = <<>>
  /\ cluster = NoCluster
  /\ DiscoveryQuiet

NextSetKeys ==
  \/ \E k \in Keys : \E v \in Vals : SetCall(k, v, MaxSeq)
  \/ \E n \in 1..MaxSeq : \E p \in Peers : \E o \in {"ok", "fail"} : SetResp(n, p, o)
  \/ KeysCall(MaxSeq)
  \/ \E n \in 1..MaxSeq : \E p \in Peers : \E o \in {"answer", "fail"} : KeysResp(n, p, o)

SpecSetKeys == InitFresh /\ [][NextSetKeys]_vars

\* The discovery of a freshly constructed instance: nothing bound, no peer
\* known, no handler registered.
\* the keys partitioned: "a", "b", ... and "zzzzzz", whose 32-bit hash is negative
PartKeys == Keys \cup {<<122, 122, 122, 122, 122, 122>>}

InitDiscovery ==
  /\ cache = EmptyStore
  /\ pstore = [p \in Peers |-> EmptyStore]
  /\ calls = <<>>
  /\ prev = NoPrev
  /\ tasks = <<>>
  /\ rpcs = <<>>
  /\ cluster = NoCluster
  /\ registry = <<>>
  /\ peerInfo = <<>>
  /\ now = 0
  /\ discoveryCallbacks = <<>>
  /\ phase = "created"
  /\ startRet = Nil
  /\ heartbeatInterval = {}
  /\ cleanupInterval = {}
  /\ sending = {}
  /\ events = <<>>
  /\ received = 0
  /\ last = Step("none", NoMsg)
  /\ part = NoPart

NextDiscovery ==
  \/ \E h \in {"returns", "throws"} : onPeerDiscovered(h)
  \/ StartCall
  \/ \E o \in {"listening", "error", "throws"} : BindDone(o)
  \/ \E m \in Datagrams : HandleMessage(m)
  \/ HeartbeatTick
  \/ \E k \in {"multicast", "broadcast"} : \E o \in {"ok", "fail"} : SendDone(k, o)
  \/ CleanupTick
  \/ Tick(MaxTime)

SpecDiscovery == InitDiscovery /\ [][NextDiscovery]_vars

\* Discovery started and stopped, with no handler registered.
NextStop ==
  \/ StartCall
  \/ \E o \in {"listening", "error", "throws"} : BindDone(o)
  \/ \E m \in Datagrams : HandleMessage(m)
  \/ HeartbeatTick
  \/ \E k \in {"multicast", "broadcast"} : \E o \in {"ok", "fail"} : SendDone(k, o)
  \/ CleanupTick
  \/ Tick(MaxTime)
  \/ Stop

SpecStop == InitDiscovery /\ [][NextStop]_vars

\* The partitioning function applied to the registries the receive path
\* builds: discovery is running and time stands still.
InitPartition ==
  /\ cache = EmptyStore
  /\ pstore = [p \in Peers |-> EmptyStore]
  /\ calls = <<>>
  /\ prev = NoPrev
  /\ tasks = <<>>
  /\ rpcs = <<>>
  /\ cluster = NoCluster
  /\ registry = <<>>
  /\ DiscoveryQuiet

NextPartition ==
  \/ \E m \in Datagrams : HandleMessage(m)
  \/ \E k \in PartKeys : PartitionCall(k)

SpecPartition == InitPartition /\ [][NextPartition]_vars

\* The instance of index.js at work, 90 s after start: discovery runs with
\* the handler of KVCache registered, the peers listed were last heard of
\* at the start, the store and the peers hold data, and announcements of
\* the tenant come in until the next cleanup scan has run. The heartbeat,
\* which touches neither the store nor the registry, is left to
\* SpecDiscovery.
Announcements ==
  {Announcement("discovery", tenant, n, s) : n \in Peers, s \in Senders}

PeerStores == [Keys -> {Absent, Null} \cup PeerVals]

InitMembership ==
  /\ cache \in [Keys -> {Absent, "v1"}]
  /\ registry \in Registries
  /\ pstore \in {[p \in Peers |-> st] : st \in PeerStores}
  /\ calls = <<>>
  /\ prev = NoPrev
  /\ tasks = <<>>
  /\ rpcs = <<>>
  /\ cluster = NoCluster
  /\ peerInfo = [n \in Range(registry) |-> KnownPeer(n)]
  /\ now = 3 * heartbeatPeriod
  /\ discoveryCallbacks = <<"kvcache">>
  /\ phase = "running"
  /\ startRet = "resolved"
  /\ heartbeatInterval = {4 * heartbeatPeriod}
  /\ cleanupInterval = {2 * cleanupPeriod}
  /\ sending = {}
  /\ events = <<>>
  /\ received = 0
  /\ last = Step("none", NoMsg)
  /\ part = NoPart

NextMembership ==
  \/ \E m \in Announcements : received < MaxJoins /\ HandleMessage(m)
  \/ \E n \in 1..MaxTasks : \E o \in {"answer", "other", "fail"} : SyncKeys(n, o)
  \/ \E n \in 1..MaxTasks : \E o \in {"answer", "fail"} : SyncValue(n, o)
  \/ \E n \in 1..MaxTasks : \E o \in {"ok", "fail"} : RedistPush(n, o)
  \/ CleanupTick
  \/ Tick(MaxTime)

SpecMembership == InitMembership /\ [][NextMembership]_vars

\* Discovery running with one handler registered, over a clock that runs
\* long enough for a peer heard of at any time to age past the threshold
\* and meet the scans that follow.
InitTiming ==
  /\ cache = EmptyStore
  /\ pstore = [p \in Peers |-> EmptyStore]
  /\ calls = <<>>
  /\ prev = NoPrev
  /\ tasks = <<>>
  /\ rpcs = <<>>
  /\ cluster = NoCluster
  /\ registry \in Registries
  /\ peerInfo = [n \in Range(registry) |-> KnownPeer(n)]
  /\ now = 0
  /\ discoveryCallbacks = <<"returns">>
  /\ phase = "running"
  /\ startRet = "resolved"
  /\ heartbeatInterval = {heartbeatPeriod}
  /\ cleanupInterval = {cleanupPeriod}
  /\ sending = {}
  /\ events = <<>>
  /\ received = 0
  /\ last = Step("none", NoMsg)
  /\ part = NoPart

NextTiming ==
  \/ \E m \in Announcements : HandleMessage(m)
  \/ HeartbeatTick
  \/ \E k \in {"multicast", "broadcast"} : SendDone(k, "ok")
  \/ CleanupTick
  \/ Tick(MaxAge)

SpecTiming == InitTiming /\ [][NextTiming]_vars

\* The partitioning function applied while peers leave and come back:
\* 90 s after start three peers are listed, last heard of at the start;
\* announcements refresh some of them, the scan at 120 s drops the others,
\* and a dropped peer that announces again is listed anew.
Names == 1..MaxNames

InitOrder ==
  /\ cache = EmptyStore
  /\ pstore = [p \in Peers |-> EmptyStore]
  /\ calls = <<>>
  /\ prev = NoPrev
  /\ tasks = <<>>
  /\ rpcs = <<>>
  /\ cluster = NoCluster
  /\ registry = [i \in Names |-> i]
  /\ peerInfo = [n \in Names |-> KnownPeer(n)]
  /\ now = 3 * heartbeatPeriod
  /\ discoveryCallbacks = <<>>
  /\ phase = "running"
  /\ startRet = "resolved"
  /\ heartbeatInterval = {4 * heartbeatPeriod}
  /\ cleanupInterval = {2 * cleanupPeriod}
  /\ sending = {}
  /\ events = <<>>
  /\ received = 0
  /\ last = Step("none", NoMsg)
  /\ part = NoPart

NextOrder ==
  \/ \E n \in Names : HandleMessage(Announcement("discovery", tenant, n, Sender1))
  \/ \E k \in Keys : PartitionCall(k)
  \/ CleanupTick
  \/ Tick(MaxTime)

SpecOrder == InitOrder /\ [][NextOrder]_vars

\* The four transport calls made one by one against peers that hold data.
InitTransport ==
  /\ cache = EmptyStore
  /\ registry = [i \in Peers |-> i]
  /\ pstore \in {[p \in Peers |-> st] : st \in PeerStores}
  /\ calls = <<>>
  /\ prev = NoPrev
  /\ tasks = <<>>
  /\ rpcs = <<>>
  /\ cluster = NoCluster
  /\ DiscoveryQuiet

NextTransport ==
  \/ \E op \in {"get", "set", "delete"} : \E p \in Peers : \E k \in Keys :
       RpcCall(op, p, k, IF op = "set" THEN "v1" ELSE Nil)
  \/ \E p \in Peers : RpcCall("keys", p, <<>>, Nil)
  \/ \E n \in 1..MaxRpcs : \E resp \in Responses : RpcSettle(n, resp)

SpecTransport == InitTransport /\ [][NextTransport]_vars

\* Redistribution under client deletes: the instance of InitMembership,
\* whose listed peers go stale at the next scan unless they announce
\* again, while clients delete keys.
NextRedistribute ==
  \/ \E m \in Announcements : received < MaxJoins /\ HandleMessage(m)
  \/ CleanupTick
  \/ Tick(MaxTime)
  \/ \E n \in 1..MaxTasks : \E o \in {"ok", "fail"} : RedistPush(n, o)
  \/ \E k \in Keys : DeleteCall(k, MaxDeletes)
  \/ \E n \in 1..MaxDeletes : \E p \in Peers :
       \E o \in {"ok", "fail"} : DeleteResp(n, p, o)

SpecRedistribute == InitMembership /\ [][NextRedistribute]_vars

\* A cluster of instances that hold nothing, and clients calling them.
InitCluster ==
  /\ cache = EmptyStore
  /\ registry = <<>>
  /\ pstore = [p \in Peers |-> EmptyStore]
  /\ calls = <<>>
  /\ prev = NoPrev
  /\ tasks = <<>>
  /\ rpcs = <<>>
  /\ cluster = NoCluster
  /\ DiscoveryQuiet

NextCluster ==
  \/ \E i \in Nodes : \E op \in {"get", "set", "delete"} : \E k \in Keys :
       ClientOp(i, op, k)
  \/ \E i \in Nodes : ClientOp(i, "keys", <<>>)
  \/ \E n \in 1..MaxOps : \E p \in Nodes : Deliver(n, p)
  \/ \E n \in 1..MaxOps : \E p \in Nodes : Answer(n, p)
  \/ \E n \in 1..MaxOps : \E p \in Nodes : Fail(n, p)

SpecCluster == InitCluster /\ [][NextCluster]_vars

\* ------------------------------------------------------------- claims
Calls == 1..Len(calls)

IsGetAfter(c, act) == c.op = "get" /\ c.after.act = act /\ c.after.key = c.key

\* C1: a get(k) issued right after the local write of set(k, v) returns v
\* from the Local Store, with no remote call, whatever v and the peers.
C1_ReadAfterWrite ==
  \A n \in Calls :
    IsGetAfter(calls[n], "set") =>
      /\ calls[n].pc = "done"
      /\ calls[n].ret = calls[n].after.val
      /\ calls[n].queried = <<>> /\ calls[n].req = <<>>

C1_Witness ==
  \E n \in Calls :
    /\ IsGetAfter(calls[n], "set") /\ calls[n].pc = "done"
    /\ calls[n].ret = Null /\ Len(registry) = 2

\* C2 as stated: a get(k) issued once delete(k) has returned yields "not
\* found", whatever the peers hold or answer.
C2_NotFoundAfterDelete ==
  \A n \in Calls :
    (IsGetAfter(calls[n], "deleted") /\ calls[n].pc = "done") => calls[n].ret = Null

\* a call other than the delete d wrote the entry of k before get g was
\* issued: a set issued after d, or a get that filled k from a peer
WrittenBetween(d, g, k) ==
  \E m \in Calls :
    /\ m # d /\ m < g /\ calls[m].key = k /\ calls[m].wrote
    /\ (calls[m].op = "set" /\ m > d) \/ calls[m].op = "get"

\* C2 amended: a get(k) issued once delete(k) has returned is served from
\* the Local Store only if another call wrote k after the delete removed
\* it; otherwise it asks the responsible peers, yields "not found" exactly
\* when each of them failed or reported absent, and otherwise the value a
\* responsible peer answered.
C2_AfterDeleteAsksPeers ==
  \A n \in Calls :
    LET c == calls[n] IN
    IsGetAfter(c, "deleted") =>
      /\ c.local => WrittenBetween(c.after.call, n, c.key)
      /\ ~c.local =>
           /\ c.resp = getResponsiblePeers(registry, c.key)
           /\ c.pc = "done" =>
                IF c.ret = Null
                THEN /\ c.queried = c.resp
                     /\ \A i \in 1..Len(c.answers) : c.answers[i] \in {Null, "error"}
                ELSE /\ c.queried # <<>>
                     /\ c.answers[Len(c.answers)] = c.ret

C2_Witness ==
  \E n \in Calls :
    /\ IsGetAfter(calls[n], "deleted") /\ calls[n].pc = "done"
    /\ calls[n].ret = Null /\ Len(calls[n].queried) = 2

\* C3: with no known peer the Responsibility Set is empty and set and delete
\* return success having touched only the Local Store (no request to wait
\* for, so the call returns in its own step).
C3_LocalOnlyReturns ==
  \A n \in Calls :
    (calls[n].op \in {"set", "delete"} /\ Len(registry) = 0) =>
      /\ calls[n].resp = <<>> /\ calls[n].req = <<>>
      /\ calls[n].pc = "done" /\ calls[n].ret = True

\* C4: with a non-empty Responsibility Set, set has returned only if one
\* remoteSet succeeded (or none is left in flight): a failed replication
\* alone does not make it return while another is in flight.
C4_ReturnsOnFirstSuccess ==
  \A n \in Calls :
    (calls[n].op = "set" /\ calls[n].resp # <<>> /\ calls[n].pc = "done") =>
      \/ \E p \in DOMAIN calls[n].req : calls[n].req[p] = "ok"
      \/ \A p \in DOMAIN calls[n].req : calls[n].req[p] # "pending"

\* some other call wrote the entry of key k after call n did
OverwrittenBy(n, k) ==
  \E m \in Calls :
    /\ m # n /\ calls[m].key = k /\ calls[m].wrote
    /\ calls[m].op = "get" \/ m > n

\* C5: whatever remoteSet calls fail, set never returns an error: once one
\* has settled, failed or not, the call has returned success, and the Local
\* Store maps k to v until another call writes k.
C5_SetNeverFails ==
  \A n \in Calls :
    LET c == calls[n] IN
    c.op = "set" =>
      /\ c.pc = "done" => c.ret = True
      /\ Settled(c.req) # {} => c.pc = "done"
      /\ c.seen = c.val
      /\ ~OverwrittenBy(n, c.key) => cache[c.key] = c.val

C5_Witness ==
  \E n \in Calls :
    /\ calls[n].op = "set" /\ calls[n].pc = "done" /\ calls[n].ret = True
    /\ Len(calls[n].resp) = 2
    /\ \A p \in DOMAIN calls[n].req : calls[n].req[p] = "failed"
    /\ cache[calls[n].key] = calls[n].val

NoHit == {Null, "error"}

Pending(req) == {p \in DOMAIN req : req[p] = "pending"}

\* C6: on a local miss get asks the peers of the Responsibility Set one at
\* a time in list order, stops at the first one that answers a value,
\* stores that value under k and returns it, and asks no peer after it.
C6_SequentialReadThrough ==
  \A n \in Calls :
    LET c == calls[n] IN
    c.op = "get" =>
      /\ ~c.local => c.resp = getResponsiblePeers(registry, c.key)
      /\ c.local => c.queried = <<>>
      /\ Len(c.queried) <= Len(c.resp)
      /\ \A i \in 1..Len(c.queried) : c.queried[i] = c.resp[i]
      /\ DOMAIN c.req = Range(c.queried)
      /\ Pending(c.req) = IF c.pc = "wait" THEN {c.queried[Len(c.queried)]} ELSE {}
      /\ Len(c.answers) = Cardinality(Settled(c.req))
      /\ \A i \in 1..Len(c.answers) :
           IF c.answers[i] \in NoHit
           THEN i < Len(c.queried) \/ (c.pc = "done" /\ i = Len(c.resp))
           ELSE /\ i = Len(c.queried) /\ c.pc = "done"
                /\ c.ret = c.answers[i] /\ c.wrote /\ c.seen = c.ret

C6_Witness ==
  \E n \in Calls :
    /\ calls[n].op = "get" /\ calls[n].pc = "done"
    /\ Len(calls[n].resp) = 2 /\ Len(calls[n].queried) = 1
    /\ calls[n].ret = "v0" /\ cache[calls[n].key] = "v0"

\* C7: get never raises, and it returns "not found" exactly when the key
\* was not local and every responsible peer failed or reported absent; a
\* get that returns "not found" did not write the Local Store.
C7_NotFoundExactly ==
  \A n \in Calls :
    LET c == calls[n] IN
    (c.op = "get" /\ c.pc = "done") =>
      /\ c.ret # "error"
      /\ c.ret = Null <=>
           /\ ~c.local
           /\ c.queried = c.resp
           /\ \A i \in 1..Len(c.answers) : c.answers[i] \in NoHit
      /\ c.ret = Null => ~c.wrote

\* C8: delete removes k from the Local Store at the call, sends one
\* remoteDelete to every peer of the Responsibility Set at once, returns
\* only when all of them have settled, and returns success either way.
C8_DeleteWaitsForAll ==
  \A n \in Calls :
    LET c == calls[n] IN
    c.op = "delete" =>
      /\ c.resp = getResponsiblePeers(registry, c.key)
      /\ DOMAIN c.req = Range(c.resp)
      /\ c.seen = Absent
      /\ ~OverwrittenBy(n, c.key) => cache[c.key] = Absent
      /\ c.pc = "done" <=> Pending(c.req) = {}
      /\ c.pc = "done" => c.ret = True

C8_Witness ==
  \E n \in Calls :
    /\ calls[n].op = "delete" /\ calls[n].pc = "done" /\ calls[n].ret = True
    /\ Len(calls[n].resp) = 2
    /\ \E p, q \in DOMAIN calls[n].req :
         calls[n].req[p] = "ok" /\ calls[n].req[q] = "failed"

\* no call wrote the Local Store since call n was issued
NoWriteSince(n) ==
  \A m \in Calls : calls[m].wrote => (m < n /\ calls[m].op # "get")

LocalKeys == {k \in Keys : cache[k] # Absent}

\* C9: keys returns the union, without duplicates, of the local keys at the
\* call and of the lists of the known peers that answered; a peer that
\* failed adds nothing and hides no other peer's keys, and keys returns
\* only when every peer call has settled.
C9_KeysUnion ==
  \A n \in Calls :
    LET c == calls[n] IN
    c.op = "keys" =>
      /\ c.resp = registry /\ DOMAIN c.req = Range(registry)
      /\ DOMAIN c.lists = {p \in DOMAIN c.req : c.req[p] = "ok"}
      /\ c.acc = c.snap \cup UNION {c.lists[p] : p \in DOMAIN c.lists}
      /\ NoWriteSince(n) => c.snap = LocalKeys
      /\ c.pc = "done" <=> Pending(c.req) = {}

C9_Witness ==
  \E n \in Calls :
    LET c == calls[n] IN
    /\ c.op = "keys" /\ c.pc = "done" /\ Len(c.resp) = 2
    /\ \E p, q \in DOMAIN c.req :
         /\ c.req[p] = "failed" /\ c.req[q] = "ok"
         /\ c.lists[q] # {} /\ c.lists[q] \cap c.snap = {}
    /\ c.snap # {} /\ c.acc = Keys

SetsBefore(n) == {i \in Calls : i < n /\ calls[i].op = "set"}

KeysSetBefore(n) == {calls[i].key : i \in SetsBefore(n)}

\* C10: on an instance that started empty among peers holding nothing, a
\* keys call issued after N set calls (and with no set after it) returns
\* exactly the keys of those sets, so do repeated keys calls, and the
\* Local Store holds those keys whatever keys calls ran.
C10_KeysAfterSets ==
  /\ LocalKeys = KeysSetBefore(Len(calls) + 1)
  /\ \A n \in Calls :
       LET c == calls[n] IN
       (c.op = "keys" /\ c.pc = "done") =>
         /\ KeysSetBefore(n) \subseteq c.acc
         /\ c.acc \subseteq KeysSetBefore(Len(calls) + 1)
         /\ (\A m \in Calls : m > n => calls[m].op # "set") =>
              c.acc = KeysSetBefore(n)

C10_Witness ==
  /\ Len(calls) = 3 /\ Len(registry) = 2
  /\ calls[1].op = "set" /\ calls[2].op = "set" /\ calls[1].key # calls[2].key
  /\ calls[3].op = "keys" /\ calls[3].pc = "done"
  /\ calls[3].acc = {calls[1].key, calls[2].key}
  /\ \E p \in DOMAIN calls[3].lists : calls[3].lists[p] # {}

\* ------------------------------------------------------------- partitioning
Parts == 1..Len(part)

HashOf(key) ==
  IF Len(key) = 1 THEN key[1] ELSE 685785664

NoDuplicates(seq) == \A i \in 1..Len(seq) : \A j \in 1..Len(seq) :
                       seq[i] = seq[j] => i = j

\* C12: with N >= 1 peers listed, the responsible peers of k are the
\* min(R, N) peers at the positions (hash(k) mod N + i) mod N, i = 0 ..
\* min(R, N) - 1, of the list; no peer twice, at most R of them, never the
\* local instance.
C12_ResponsibilitySet ==
  \A n \in Parts :
    LET peers == part[n].peers
        result == part[n].result
        N == Len(peers)
        size == IF N < replicationFactor THEN N ELSE replicationFactor
    IN N >= 1 =>
         /\ HashOf(part[n].key) >= 0
         /\ Len(result) = size
         /\ \A i \in 0..(size - 1) :
              result[i + 1] = peers[(((HashOf(part[n].key) % N) + i) % N) + 1]
         /\ NoDuplicates(result)
         /\ Len(result) <= replicationFactor
         /\ podName \notin Range(result)

C12_Witness ==
  \E n \in Parts :
    /\ Len(part[n].key) > 1
    /\ part[n].peers = <<2, 1>>
    /\ part[n].result = <<2, 1>>
    /\ last.act = "partition"
\* ------------------------------------------------------------- discovery
Events == 1..Len(events)

\* the notifications the step under way delivers
NewEvents == {i \in 1..Len(events') : i > Len(events)}

\* C13: a cleanup tick removes exactly the peers last seen more than 90 s
\* ago, with one "removed" notification for each of them; the other peers
\* stay as they were, in their order, and get no notification.
C13_CleanupRemovesStale ==
  [][last'.act = "cleanup" =>
       LET stale == {n \in DOMAIN peerInfo : now - peerInfo[n].lastSeen > 90000}
       IN /\ registry' = SelectSeq(registry, LAMBDA n : n \notin stale)
          /\ DOMAIN peerInfo' = DOMAIN peerInfo \ stale
          /\ \A n \in DOMAIN peerInfo' : peerInfo'[n] = peerInfo[n]
          /\ \A i \in Events : events'[i] = events[i]
          /\ \A i \in NewEvents :
               events'[i].action = "removed" /\ events'[i].peer \in stale
          /\ \A n \in stale :
               Cardinality({i \in NewEvents : events'[i].peer = n}) = 1
    ]_vars

C13_Witness ==
  /\ last.act = "cleanup"
  /\ now = 120000
  /\ registry = <<2>>
  /\ peerInfo[2].lastSeen = 30000
  /\ \E i \in Events : events[i].action = "removed" /\ events[i].peer = 1

\* C14: a datagram whose tenant is not the local tenant inserts no entry,
\* refreshes no lastSeen and raises no notification; and an entry is
\* inserted or changed only by a datagram that carries the local tenant and
\* the entry's name.
C14_TenantIsolation ==
  [][/\ (last'.act = "message" /\ last'.msg.tenant # tenant)
          => UNCHANGED <<registry, peerInfo, events>>
     /\ \A n \in DOMAIN peerInfo' :
          (n \notin DOMAIN peerInfo \/ peerInfo'[n] # peerInfo[n])
            => /\ last'.act = "message"
               /\ last'.msg.tenant = tenant
               /\ last'.msg.podName = n
    ]_vars

C14_Witness ==
  /\ last.act = "message"
  /\ last.msg.type = "discovery"
  /\ last.msg.tenant = "other"
  /\ last.msg.podName \in DOMAIN peerInfo
  /\ peerInfo[last.msg.podName].lastSeen < now
  /\ peerInfo[last.msg.podName].ip # last.msg.podIP

\* a datagram that is not a well-formed announcement
Malformed(msg) ==
  \/ msg.raw # "object"
  \/ msg.type # "discovery"
  \/ msg.podName = Undefined
  \/ msg.podIP = Undefined
  \/ msg.servicePort = Undefined

\* C15: a datagram that is not a well-formed announcement (not JSON, not an
\* object, wrong type, or without podName, podIP or servicePort) is dropped:
\* no entry is inserted or refreshed and no notification is raised.
C15_MalformedDropped ==
  [][(last'.act = "message" /\ Malformed(last'.msg))
       => UNCHANGED <<registry, peerInfo, events>>
    ]_vars

\* C16: the registry never holds an entry under the local instance's name,
\* whatever is received, the instance's own announcements included.
C16_NeverSelf ==
  /\ podName \notin Range(registry)
  /\ podName \notin DOMAIN peerInfo
  /\ \A n \in DOMAIN peerInfo : peerInfo[n].name # podName

C16_Witness ==
  /\ last.act = "message"
  /\ last.msg.type = "discovery"
  /\ last.msg.tenant = tenant
  /\ last.msg.podName = podName
  /\ Len(registry) = 2

\* a well-formed announcement of the local tenant from another instance
Valid(msg) ==
  /\ ~Malformed(msg)
  /\ msg.tenant = tenant
  /\ msg.podName # podName

\* C17: a valid announcement from a name not in the registry inserts one
\* entry for it and raises one "added" notification; one from a name in the
\* registry changes only that entry's lastSeen (ip, port and discoveryIP
\* stay as first recorded, the other entries as they were) and raises no
\* notification.
C17_InsertOrRefresh ==
  [][(last'.act = "message" /\ Valid(last'.msg)) =>
       LET msg == last'.msg
           n == msg.podName
       IN IF n \notin DOMAIN peerInfo
          THEN /\ registry' = Append(registry, n)
               /\ DOMAIN peerInfo' = DOMAIN peerInfo \cup {n}
               /\ peerInfo'[n] = [name |-> n, ip |-> msg.podIP,
                                  port |-> msg.servicePort, lastSeen |-> now,
                                  discoveryIP |-> msg.address]
               /\ \A m \in DOMAIN peerInfo : peerInfo'[m] = peerInfo[m]
               /\ Len(events') = Len(events) + 1
               /\ \A i \in Events : events'[i] = events[i]
               /\ events'[Len(events')].action = "added"
               /\ events'[Len(events')].peer = n
          ELSE /\ registry' = registry
               /\ events' = events
               /\ DOMAIN peerInfo' = DOMAIN peerInfo
               /\ peerInfo'[n] = [peerInfo[n] EXCEPT !.lastSeen = now]
               /\ \A m \in DOMAIN peerInfo \ {n} : peerInfo'[m] = peerInfo[m]
    ]_vars

C17_Witness ==
  /\ last.act = "message"
  /\ Valid(last.msg)
  /\ last.msg.podName \in DOMAIN peerInfo
  /\ peerInfo[last.msg.podName].ip # last.msg.podIP
  /\ peerInfo[last.msg.podName].lastSeen = now
  /\ now > 0
  /\ Cardinality({i \in Events : events[i].peer = last.msg.podName}) = 1
  /\ Len(registry) = 2

\* C18: every notification invokes every registered handler, in the order
\* registered, within the step that adds or removes the peer; a handler that
\* throws is caught, the handlers after it are still invoked, and the
\* cleanup scan that raised the notification still removes every stale peer.
C18_HandlersIsolated ==
  /\ \A i \in Events :
       /\ events[i].invoked = [h \in 1..Len(discoveryCallbacks) |-> h]
       /\ events[i].caught =
            {h \in 1..Len(discoveryCallbacks) : discoveryCallbacks[h] = "throws"}
       /\ events[i].action = "added" =>
            \/ events[i].peer \in DOMAIN peerInfo
            \/ \E j \in Events : /\ j > i
                                  /\ events[j].peer = events[i].peer
                                  /\ events[j].action = "removed"
  /\ last.act = "cleanup" =>
       \A n \in DOMAIN peerInfo : now - peerInfo[n].lastSeen <= 90000

C18_Witness ==
  /\ discoveryCallbacks = <<"throws", "returns">>
  /\ last.act = "cleanup"
  /\ registry = <<>>
  /\ Len(events) = 4
  /\ events[3].action = "removed" /\ events[4].action = "removed"
  /\ events[3].invoked = <<1, 2>> /\ events[4].invoked = <<1, 2>>

\* C19: when the socket cannot bind, start() fails to its caller (its
\* promise rejects: it neither fulfils nor stays pending) and the instance
\* is not running: no heartbeat timer, no cleanup timer, no announcement.
C19_BindFailureReported ==
  phase = "failed" =>
    /\ startRet = "rejected"
    /\ heartbeatInterval = {}
    /\ cleanupInterval = {}
    /\ sending = {}

\* C20: a failed announcement send is logged and not fatal: once the
\* callback of the failed send has run, the instance is still running with
\* its heartbeat timer armed and the registry as it was.
C20_SendFailureNotFatal ==
  last.act = "sendFailed" =>
    /\ phase = "running"
    /\ heartbeatInterval # {}

\* C21: once stop() has been called, whether the bind was still under way
\* or the instance was running, no announcement is sent, no cleanup scan
\* runs, no datagram is handled and no notification is raised.
C21_StopSilences ==
  [][phase = "stopped" =>
       /\ last'.act \notin {"heartbeat", "cleanup", "message", "listening"}
       /\ events' = events
       /\ registry' = registry
       /\ sending' \subseteq sending
       /\ heartbeatInterval' = {} /\ cleanupInterval' = {}
    ]_vars

C21_Witness ==
  /\ phase = "stopped"
  /\ startRet = "resolved"
  /\ last.act = "tick"
  /\ now >= cleanupPeriod
  /\ registry # <<>>
  /\ sending = {}

C21_StoppedWhileBinding ==
  /\ phase = "stopped"
  /\ startRet = "pending"
  /\ last.act = "tick"

Syncs == {n \in 1..Len(tasks) : tasks[n].op = "sync"}

\* the instance is responsible for the key of a turn: a member of the
\* Responsibility Set over the registry of that moment carries the
\* instance's address, or the set is empty
ResponsibleAt(turn) ==
  LET rs == getResponsiblePeers(turn.reg, turn.key)
  IN Range(rs) \cap turn.mine # {} \/ rs = <<>>

Redists == {n \in 1..Len(tasks) : tasks[n].op = "redistribute"}

\* C23: a redistribution goes through every key held when it started; for
\* a key whose Responsibility Set over the registry of that moment has
\* fewer than R members it calls setOnPeer on each member in order, one
\* after the other whatever the previous call's outcome, and for a key
\* whose set has R members it makes no call.
C23_RedistributePushes ==
  \A n \in Redists :
    LET t == tasks[n]
    IN /\ \A i \in 1..Len(t.turns) :
            LET rs == getResponsiblePeers(t.turns[i].reg, t.turns[i].key)
                shown == IF i = t.i /\ t.pc = "push" THEN t.j ELSE Len(rs)
            IN /\ t.turns[i].key = t.keys[i]
               /\ Len(rs) >= replicationFactor => t.turns[i].pushes = <<>>
               /\ Len(rs) < replicationFactor =>
                    t.turns[i].pushes = SubSeq(rs, 1, shown)
       /\ t.pc = "done" => Len(t.turns) = Len(t.keys)

C23_Witness ==
  \E n \in Redists :
    /\ tasks[n].pc = "done"
    /\ Len(tasks[n].turns) = 2
    /\ Len(tasks[n].turns[1].pushes) = 1
    /\ Len(tasks[n].turns[2].pushes) = 1
    /\ pstore[tasks[n].turns[1].pushes[1]][tasks[n].keys[1]] # cache[tasks[n].keys[1]]
    /\ pstore[tasks[n].turns[2].pushes[1]][tasks[n].keys[2]] = cache[tasks[n].keys[2]]

\* a redistribution that found R members for a key and made no call for it
C23_FullSetNoCall ==
  \E n \in Redists :
    /\ tasks[n].pc = "done"
    /\ \E i \in 1..Len(tasks[n].turns) :
         Len(tasks[n].turns[i].reg) >= replicationFactor /\ tasks[n].turns[i].pushes = <<>>

\* C24: no step of the membership protocol, of a sync or of a
\* redistribution takes a key out of the Local Store: every key held
\* before the step is held after it, so the local part of keys() never
\* shrinks.
C24_MembershipKeepsKeys ==
  [][cacheKeys(cache) \subseteq cacheKeys(cache')]_vars

C24_Witness ==
  /\ \E i \in 1..Len(events) : events[i].action = "removed"
  /\ \E n \in Redists :
       /\ tasks[n].pc = "done"
       /\ Len(tasks[n].keys) = 1
       /\ cacheHas(cache, tasks[n].keys[1])
  /\ \E n \in Syncs :
       /\ tasks[n].pc = "done"
       /\ \E i \in 1..Len(tasks[n].turns) : tasks[n].turns[i].outcome = "value"
  /\ cacheKeys(cache) = Keys

Age(n) == now - peerInfo[n].lastSeen

\* C25 as stated: an instance that announces every 30 s and is killed
\* made its last announcement less than 30 s before; unlisted within 90 s
\* of the kill, it is not listed with an announcement 120 s old once the
\* scans due have run.
C25_UnlistedWithin90 ==
  ~Due(cleanupInterval) => \A n \in Range(registry) : Age(n) < 120000

\* C25 amended: an instance that stopped announcing is unlisted by the
\* first cleanup scan that finds its last announcement more than 90 s old,
\* which runs at most 150 s after that announcement: no listed peer is
\* older than 150 s, and none is older than 90 s when a scan has just run.
C25_UnlistedWithin150 ==
  /\ \A n \in Range(registry) : Age(n) <= 150000
  /\ last.act = "cleanup" => \A n \in Range(registry) : Age(n) <= 90000

C25_Witness ==
  /\ last.act = "cleanup"
  /\ now = 180000
  /\ registry = <<>>
  /\ \E i \in 1..Len(events) : events[i].action = "removed" /\ events[i].peer = 1
  /\ \E i \in 1..Len(events) : events[i].action = "added" /\ events[i].peer = 1

\* C28: no step takes a peer whose last announcement is at most 90 s old
\* out of the registry or delivers a "removed" notification for it.
C28_FreshPeerKept ==
  [][\A n \in Range(registry) :
       now - peerInfo[n].lastSeen <= 90000 =>
         /\ n \in Range(registry')
         /\ \A i \in NewEvents : ~(events'[i].action = "removed" /\ events'[i].peer = n)
    ]_vars

C28_Witness ==
  /\ last.act = "cleanup"
  /\ now = 120000
  /\ 1 \in Range(registry)
  /\ peerInfo[1].lastSeen = 30000
  /\ \A i \in 1..Len(events) : events[i].peer # 1

\* C26: in the step in which the remoteSet of a set(k, v) is delivered to
\* a peer of k's Responsibility Set and acknowledged, that peer's store
\* comes to hold v under k, and for a value other than null the peer's own
\* get(k) answers v.
C26_DeliveredSetVisible ==
  [][\A n \in 1..Len(calls) : \A p \in Peers :
       (/\ calls[n].op = "set"
        /\ p \in DOMAIN calls[n].req
        /\ calls[n].req[p] = "pending"
        /\ calls'[n].req[p] = "ok")
         => /\ p \in Range(calls[n].resp)
            /\ pstore'[p][calls[n].key] = calls[n].val
            /\ calls[n].val # Null =>
                 PeerGet(pstore'[p], calls[n].key) = calls[n].val
    ]_vars

C26_Witness ==
  \E n \in 1..Len(calls) : \E p \in Peers :
    /\ calls[n].op = "set" /\ calls[n].val = "v1"
    /\ p \in DOMAIN calls[n].req /\ calls[n].req[p] = "ok"
    /\ pstore[p][calls[n].key] = "v1"
    /\ PeerGet(pstore[p], calls[n].key) = "v1"

\* C27: two invocations of the partitioning function for the same key over
\* registries that list the same peers return the same responsible peers,
\* whatever the order the peers came to be listed in.
C27_OrderFromSetAlone ==
  \A i \in Parts : \A j \in Parts :
    (part[i].key = part[j].key /\ Range(part[i].peers) = Range(part[j].peers))
      => Range(part[i].result) = Range(part[j].result)

SettledRpcs == {n \in 1..Len(rpcs) : rpcs[n].pc = "settled"}

\* C29: every transport call sends one request, and one that met a
\* timeout, a connection error or a response other than success ends in an
\* error, except getFromPeer answered 404, which ends in null.
C29_FailuresSurface ==
  \A n \in 1..Len(rpcs) :
    /\ rpcs[n].requests = 1
    /\ n \in SettledRpcs =>
         /\ rpcs[n].status = 200 => rpcs[n].result.kind = "resolved"
         /\ (rpcs[n].status = 404 /\ rpcs[n].op = "get") =>
              (rpcs[n].result.kind = "resolved" /\ rpcs[n].result.value = Null)
         /\ (rpcs[n].status \notin {200, 404} \/
              (rpcs[n].status = 404 /\ rpcs[n].op # "get")) =>
              rpcs[n].result.kind = "rejected"

\* C29 without the list call: the other three calls behave as stated
C29_OthersSurface ==
  \A n \in SettledRpcs :
    rpcs[n].op # "keys" =>
      /\ rpcs[n].requests = 1
      /\ rpcs[n].status = 200 => rpcs[n].result.kind = "resolved"
      /\ rpcs[n].status = 404 =>
           (rpcs[n].result.kind = "resolved" /\ rpcs[n].result.value = Null)
      /\ rpcs[n].status \notin {200, 404} => rpcs[n].result.kind = "rejected"

\* C30: a key that is held, whatever its value, is never answered with
\* "not found": a get that found the key in the Local Store returns
\* something other than the not-found result, and so does GET /kv/:key on a
\* peer that holds the key.
C30_AbsenceDistinct ==
  /\ \A n \in Calls :
       (calls[n].op = "get" /\ calls[n].pc = "done" /\ calls[n].local)
         => calls[n].ret # Null
  /\ \A p \in Peers : \A k \in Keys :
       pstore[p][k] # Absent => PeerGet(pstore[p], k) # Null

\* C31: the step that completes the bind and every heartbeat tick hand one
\* announcement to the socket for the multicast group and one for the
\* broadcast address, and only while Running; no other step sends, nothing
\* is sent before the bind has completed, and the clock never passes a
\* heartbeat that is due.
C31_AnnounceOnStartAndTick ==
  [][/\ last'.act \in {"listening", "heartbeat"} =>
          (sending' = {"multicast", "broadcast"} /\ phase' = "running")
     /\ ~(sending' \subseteq sending) => last'.act \in {"listening", "heartbeat"}
     /\ phase' \in {"created", "binding", "failed"} => sending' = {}
     /\ (phase = "running" /\ now' > now) =>
          (heartbeatInterval # {} /\ \A d \in heartbeatInterval : now < d /\ d <= now')
    ]_vars

C31_Witness ==
  /\ phase = "running"
  /\ last.act = "heartbeat"
  /\ now = 2 * heartbeatPeriod
  /\ sending = {"multicast", "broadcast"}
  /\ heartbeatInterval = {3 * heartbeatPeriod}

\* a step in which no call is issued: a remote answer or failure arrives
ResponseStep == Len(calls') = Len(calls)

\* C35: a remote answer that arrives never replaces a value that a local
\* set wrote: a key that holds the value of a set(k, v) issued on this
\* instance holds it still after the step in which a fill completes.
C35_FillKeepsLocalWrite ==
  [][ResponseStep =>
       \A n \in Calls :
         (calls[n].op = "set" /\ cache[calls[n].key] = calls[n].val)
           => cache'[calls[n].key] = calls[n].val
    ]_vars

\* C36: a get that was waiting for a remote answer when a delete(k) was
\* issued does not put k back: in the step in which such a get completes,
\* a key that is not held is not held afterwards either.
C36_NoFillAfterDelete ==
  [][ResponseStep =>
       \A g \in Calls : \A d \in Calls :
         (/\ calls[g].op = "get" /\ calls[d].op = "delete"
          /\ g < d /\ calls[g].key = calls[d].key
          /\ calls[g].pc = "wait" /\ calls'[g].pc = "done"
          /\ ~cacheHas(cache, calls[g].key))
           => ~cacheHas(cache', calls[g].key)
    ]_vars

\* the redistributions that issue a setOnPeer in the step under way
Pushing ==
  {n \in 1..Len(tasks') :
     /\ tasks'[n].op = "redistribute" /\ tasks'[n].pc = "push"
     /\ \/ n > Len(tasks)
        \/ tasks[n].i # tasks'[n].i
        \/ tasks[n].j # tasks'[n].j}

\* C37: whenever a redistribution issues a setOnPeer, the key is in the
\* Local Store and the value sent is the value the store holds for it.
C37_PushesWhatIsHeld ==
  [][\A n \in Pushing :
       LET t == tasks'[n]
       IN /\ cacheHas(cache', t.keys[t.i])
          /\ t.value = cache'[t.keys[t.i]]
    ]_vars

\* the notifications about peer n, in the order they were raised
EventsOf(n) == SelectSeq(events, LAMBDA e : e.peer = n)

\* C39: the notifications about a name alternate between "added" and
\* "removed", the first being "added", and the name is listed exactly when
\* the latest one is "added".
C39_EventsAlternate ==
  \A n \in {e.peer : e \in Range(events)} \cup Range(registry) :
    LET es == EventsOf(n)
    IN /\ \A i \in 1..Len(es) :
            es[i].action = IF i % 2 = 1 THEN "added" ELSE "removed"
       /\ n \in Range(registry) <=> (Len(es) > 0 /\ es[Len(es)].action = "added")
       /\ Cardinality({i \in 1..Len(registry) : registry[i] = n}) <= 1

C39_Witness ==
  /\ Len(EventsOf(1)) = 3
  /\ EventsOf(1)[3].action = "added"
  /\ 1 \in Range(registry)
  /\ last.act = "message"

\* C40: the list getPeers() returns while the handlers of a notification
\* run contains the peer of an "added" notification and does not contain
\* the peer of a "removed" one.
C40_RegistryUpdatedFirst ==
  \A i \in 1..Len(events) :
    /\ events[i].action = "added" => events[i].peer \in Range(events[i].seen)
    /\ events[i].action = "removed" => events[i].peer \notin Range(events[i].seen)

C40_Witness ==
  \E i \in 1..Len(events) : \E j \in 1..Len(events) :
    /\ i < j
    /\ events[i].action = "added" /\ events[j].action = "removed"
    /\ events[i].peer = events[j].peer
    /\ Len(events[i].seen) = 2
    /\ Len(events[j].seen) = 1
    /\ events[j].invoked # <<>>

Ops == 1..Len(cluster.ops)

\* the requests sent over the transport because of invocations of op
Requests(op) ==
  {<<n, p>> \in Ops \X Nodes :
     cluster.ops[n].op = op /\ p \in DOMAIN cluster.ops[n].req}

\* C32: an instance that serves a peer's remoteSet or remoteDelete writes
\* its own store and sends no request, so the requests in the cluster are
\* those of the clients' invocations, one per responsible peer.
C32_NoFurtherReplication ==
  \A n \in Ops :
    (cluster.ops[n].op \in {"set", "delete"} /\ cluster.ops[n].parent # 0)
      => DOMAIN cluster.ops[n].req = {}

\* C33: an instance that serves a peer's remoteGet answers from its own
\* store and sends no request, so one client get of a key nobody holds
\* causes at most R remote gets.
C33_RemoteGetLocalOnly ==
  /\ \A n \in Ops :
       (cluster.ops[n].op = "get" /\ cluster.ops[n].parent # 0)
         => DOMAIN cluster.ops[n].req = {}
  /\ Cardinality({n \in ClientOps : cluster.ops[n].op = "get"}) = 1
       => Cardinality(Requests("get")) <= replicationFactor

\* C34: an instance that serves a peer's list request answers with its
\* own keys and sends no request, so one client keys() causes one request
\* per peer the caller knows and no other.
C34_ListLocalOnly ==
  /\ \A n \in Ops :
       (cluster.ops[n].op = "keys" /\ cluster.ops[n].parent # 0)
         => DOMAIN cluster.ops[n].req = {}
  /\ \A n \in ClientOps :
       (cluster.ops[n].op = "keys" /\ Cardinality(ClientOps) = 1)
         => Requests("keys") = {<<n, p>> : p \in Range(peersOf(cluster.ops[n].node))}

\* C38: once a client's delete(k) has returned with every remoteDelete
\* answered, and the clients' set(k) were all issued before it and have
\* returned, no instance holds k.
C38_DeletedEverywhere ==
  \A d \in ClientOps :
    (/\ cluster.ops[d].op = "delete" /\ cluster.ops[d].pc = "done"
     /\ \A p \in DOMAIN cluster.ops[d].req : cluster.ops[d].req[p] = "ok"
     /\ \A n \in ClientOps :
          (cluster.ops[n].op = "set" /\ cluster.ops[n].key = cluster.ops[d].key)
            => (n < d /\ cluster.ops[n].pc = "done"))
      => \A i \in Nodes : ~cacheHas(cluster.store[i], cluster.ops[d].key)
====
